---- MODULE Spec2Model ----
(***************************************************************************)
(* goelement: the tree builder (dive) and the path matcher (MatchesPath,   *)
(* FindPath, FindPathAll, Path, FlattenChildren) of src/goelement.go.      *)
(*                                                                         *)
(* Go strings that the code splits, joins or compares piecewise (tag names *)
(* and path expressions) are sequences of one-character strings.  Strings  *)
(* that are only compared as a whole (attribute keys and values) are TLA+  *)
(* strings.  Nodes live in a heap: node i is nodes[i], a *Node is an index *)
(* into the heap and the nil pointer is Nil.  A nil dereference is a Go    *)
(* run-time panic: it ends dive (pc = "panic") or is the result of a query.*)
(***************************************************************************)
EXTENDS Integers, Sequences, FiniteSets, TLC

\* Most nodes one token stream may create.
MaxNodes == 4
\* Most "/"-separated segments of a path handed to MatchesPath.
MaxSegs == 3
\* Most "/"-separated segments of a NodePath handed to FindPath / FindPathAll.
MaxFindSegs == 2

\* The nil *Node.
Nil == 0
\* The outcome "run-time panic" where a *Node is expected.
Panic == -1
\* The outcome "run-time panic" where a []*Node is expected.
PanicSeq == <<Panic>>

Slash == "/"
Dot == "."

\* Tag names of the tokens (html.Token.Data of start, end and self-closing tags).
Tags == {<<"a">>, <<"b">>}

\* html.Token.Attr of a tag token: an ordered list of (Key, Val) pairs.
AttrLists ==
  { <<>>,
    <<[Key |-> "class", Val |-> "c"], [Key |-> "id", Val |-> "i"]>> }

NoAttrLists == { <<>> }

VARIABLES
  nodes,   \* the heap: nodes[i] = [Data, Parent, Children, Attributes]
  root,    \* dive's local `root`
  parent,  \* dive's local `parent`, the cursor
  pc,      \* "loop": dive reads tokens; "returned"; "panic"
  tok,     \* the token dive processed last
  q        \* the query made on the returned tree, with its result

vars == <<nodes, root, parent, pc, tok, q>>

NoToken == [Type |-> "None", Data |-> <<>>, Attr |-> <<>>]
NoQuery == [op |-> "none", node |-> Nil, path |-> <<>>, class |-> "", id |-> "", res |-> Nil]

NodeIds == 1..Len(nodes)

------------------------------------------------------------------------------
\* strings.Split(s, "/")
RECURSIVE Split(_)
Split(s) ==
  IF \A i \in 1..Len(s) : s[i] # Slash
  THEN <<s>>
  ELSE LET i == CHOOSE k \in 1..Len(s) :
                  s[k] = Slash /\ \A j \in 1..(k-1) : s[j] # Slash
       IN  <<SubSeq(s, 1, i-1)>> \o Split(SubSeq(s, i+1, Len(s)))

\* strings.Join(segs, "/")
RECURSIVE Join(_)
Join(segs) ==
  IF Len(segs) = 0 THEN <<>>
  ELSE IF Len(segs) = 1 THEN segs[1]
  ELSE segs[1] \o <<Slash>> \o Join(Tail(segs))

\* strings.HasPrefix(s, ".")
HasPrefix(s) == Len(s) > 0 /\ s[1] = Dot

\* strings.TrimPrefix(s, ".")
TrimPrefix(s) == IF HasPrefix(s) THEN Tail(s) ELSE s

------------------------------------------------------------------------------
\* Node.FindTagReverse: node itself, then its parents; a nil receiver panics
\* on node.Data.
RECURSIVE FindTagReverse(_, _)
FindTagReverse(node, tag) ==
  IF node = Nil THEN Panic
  ELSE IF nodes[node].Data = tag THEN node
  ELSE IF nodes[node].Parent = Nil THEN Nil
  ELSE FindTagReverse(nodes[node].Parent, tag)

\* MatchesPath without its directChild branch: a marked segment is looked up
\* like an unmarked one.
RECURSIVE MatchesPathIgnoringDot(_, _)
MatchesPathIgnoringDot(node, path) ==
  IF path = <<>> THEN "true"
  ELSE
    LET split == Split(path)
        n == Len(split)
        current == TrimPrefix(split[n])
    IN
    IF node = Nil THEN "panic"
    ELSE IF n = 1 THEN (IF current = nodes[node].Data THEN "true" ELSE "false")
    ELSE IF current # nodes[node].Data THEN "false"
    ELSE
      LET newPath == Join(SubSeq(split, 1, n-1))
          parentName == TrimPrefix(split[n-1])
          found == FindTagReverse(node, parentName)
      IN IF found # Nil THEN MatchesPathIgnoringDot(found, newPath) ELSE "false"

\* Node.MatchesPath: "true", "false", or "panic" when node.Data is read
\* through a nil receiver (the empty path returns before any such read).
RECURSIVE MatchesPath(_, _)
MatchesPath(node, path) ==
  IF path = <<>> THEN "true"
  ELSE
    LET split == Split(path)
        n == Len(split)
        directChild == HasPrefix(split[n])
        current == TrimPrefix(split[n])
    IN
    IF node = Nil THEN "panic"
    ELSE IF n = 1 THEN (IF current = nodes[node].Data THEN "true" ELSE "false")
    ELSE IF current # nodes[node].Data THEN "false"
    ELSE
      LET newPath == Join(SubSeq(split, 1, n-1)) IN
      IF directChild THEN MatchesPath(nodes[node].Parent, newPath)
      ELSE
        LET parentName == TrimPrefix(split[n-1])
            found == FindTagReverse(node, parentName)
        IN IF found # Nil THEN MatchesPath(found, newPath) ELSE "false"

\* Node.HasClass
HasClass(node, class) ==
  IF class = "" THEN TRUE
  ELSE IF "class" \notin DOMAIN nodes[node].Attributes THEN FALSE
  ELSE nodes[node].Attributes["class"].Val = class

\* Node.HasID
HasID(node, ID) ==
  IF ID = "" THEN TRUE
  ELSE IF "id" \notin DOMAIN nodes[node].Attributes THEN FALSE
  ELSE nodes[node].Attributes["id"].Val = ID

\* Node.FindPath, and its loop over node.Children.  A panic unwinds the
\* whole call.
RECURSIVE FindPath(_, _), FindPathChildren(_, _)
FindPath(node, nodePath) ==
  LET m == MatchesPath(node, nodePath.Path) IN
  IF m = "panic" THEN Panic
  ELSE IF m = "true" /\ HasClass(node, nodePath.Class) /\ HasID(node, nodePath.ID)
       THEN node
  ELSE FindPathChildren(nodes[node].Children, nodePath)

FindPathChildren(children, nodePath) ==
  IF children = <<>> THEN Nil
  ELSE LET result == FindPath(children[1], nodePath) IN
       IF result # Nil THEN result
       ELSE FindPathChildren(Tail(children), nodePath)

\* Node.findAll, and its loop over node.Children: acc is *nodes.
RECURSIVE findAll(_, _, _), findAllChildren(_, _, _)
findAll(node, nodePath, acc) ==
  LET m == MatchesPath(node, nodePath.Path) IN
  IF m = "panic" THEN PanicSeq
  ELSE findAllChildren(nodes[node].Children, nodePath,
         IF m = "true" /\ HasClass(node, nodePath.Class) /\ HasID(node, nodePath.ID)
         THEN Append(acc, node) ELSE acc)

findAllChildren(children, nodePath, acc) ==
  IF children = <<>> THEN acc
  ELSE LET r == findAll(children[1], nodePath, acc) IN
       IF r = PanicSeq THEN PanicSeq
       ELSE findAllChildren(Tail(children), nodePath, r)

\* Node.FindPathAll
FindPathAll(node, nodePath) == findAll(node, nodePath, <<>>)

\* Node.getChildTree, and its loop over node.Children.
RECURSIVE getChildTree(_, _), getChildTrees(_, _)
getChildTree(node, acc) == getChildTrees(nodes[node].Children, Append(acc, node))

getChildTrees(children, acc) ==
  IF children = <<>> THEN acc
  ELSE getChildTrees(Tail(children), getChildTree(children[1], acc))

\* Node.FlattenChildren
FlattenChildren(node) == getChildTrees(nodes[node].Children, <<>>)

\* createPath with the format "%s/%s": the "/" after the tag name.
RECURSIVE createPathSlashAfter(_, _)
createPathSlashAfter(node, path) ==
  LET p == nodes[node].Data \o <<Slash>> \o path IN
  IF nodes[node].Parent = Nil THEN p
  ELSE createPathSlashAfter(nodes[node].Parent, p)

\* Node.createPath: fmt.Sprintf("/%s%s", node.Data, path), then the parent.
RECURSIVE createPath(_, _)
createPath(node, path) ==
  LET p == <<Slash>> \o nodes[node].Data \o path IN
  IF nodes[node].Parent = Nil THEN p
  ELSE createPath(nodes[node].Parent, p)

\* Node.Path
Path(node) == createPath(node, <<>>)

------------------------------------------------------------------------------
\* newNode.  Every map entry is &attr, the address of the one loop variable
\* (the repository has no go.mod, so the loop variable is shared by all
\* iterations): after the loop each entry reads the last attribute.
newNode(token, par) ==
  [ Data       |-> token.Data,
    Parent     |-> par,
    Children   |-> <<>>,
    Attributes |-> [k \in {token.Attr[i].Key : i \in DOMAIN token.Attr} |->
                      token.Attr[Len(token.Attr)]] ]

\* The append made on the root instead of the cursor.
AppendChildToRoot(heap, par, node) ==
  [heap EXCEPT ![1].Children = Append(@, node)]

\* parent.Children = append(parent.Children, node)
AppendChild(heap, par, node) ==
  [heap EXCEPT ![par].Children = Append(@, node)]

Init ==
  /\ nodes = <<>>
  /\ root = Nil
  /\ parent = Nil
  /\ pc = "loop"
  /\ tok = NoToken
  /\ q = NoQuery

\* case html.StartTagToken
StartTag(t, a) ==
  LET token == [Type |-> "StartTag", Data |-> t, Attr |-> a]
      node == Len(nodes) + 1
      heap == Append(nodes, newNode(token, parent))
  IN
  /\ pc = "loop"
  /\ Len(nodes) < MaxNodes
  /\ tok' = token
  /\ q' = q
  /\ IF root = Nil
     THEN /\ nodes' = heap
          /\ root' = node
          /\ parent' = node
          /\ pc' = "loop"
     ELSE IF parent = Nil
     THEN \* parent.Children through the nil cursor
          /\ nodes' = heap
          /\ pc' = "panic"
          /\ UNCHANGED <<root, parent>>
     ELSE /\ nodes' = AppendChild(heap, parent, node)
          /\ parent' = node
          /\ pc' = "loop"
          /\ root' = root

\* case html.SelfClosingTagToken
SelfClosingTag(t, a) ==
  LET token == [Type |-> "SelfClosingTag", Data |-> t, Attr |-> a]
      node == Len(nodes) + 1
      heap == Append(nodes, newNode(token, parent))
  IN
  /\ pc = "loop"
  /\ Len(nodes) < MaxNodes
  /\ tok' = token
  /\ q' = q
  /\ UNCHANGED <<root, parent>>
  /\ IF parent = Nil
     THEN \* parent.Children through the nil cursor
          /\ nodes' = heap
          /\ pc' = "panic"
     ELSE /\ nodes' = AppendChild(heap, parent, node)
          /\ pc' = "loop"

\* case html.EndTagToken
EndTag(t) ==
  LET token == [Type |-> "EndTag", Data |-> t, Attr |-> <<>>]
      tag == FindTagReverse(parent, t)
  IN
  /\ pc = "loop"
  /\ tok' = token
  /\ q' = q
  /\ UNCHANGED <<nodes, root>>
  /\ IF tag = Panic
     THEN /\ pc' = "panic"
          /\ parent' = parent
     ELSE /\ pc' = "loop"
          /\ parent' = IF tag # Nil THEN nodes[tag].Parent ELSE parent

\* Any other token type (text, comment, doctype): no case of the switch.
OtherToken ==
  /\ pc = "loop"
  /\ tok' = [Type |-> "Text", Data |-> <<>>, Attr |-> <<>>]
  /\ UNCHANGED <<nodes, root, parent, pc, q>>

\* html.ErrorToken: return root.  The locals of dive other than the
\* returned root are gone.
ErrorToken ==
  /\ pc = "loop"
  /\ pc' = "returned"
  /\ tok' = [Type |-> "Error", Data |-> <<>>, Attr |-> <<>>]
  /\ parent' = Nil
  /\ UNCHANGED <<nodes, root, q>>

\* One iteration of dive's loop on a token whose attributes are in attrLists.
Token(attrLists) ==
  \/ \E t \in Tags, a \in attrLists : StartTag(t, a)
  \/ \E t \in Tags, a \in attrLists : SelfClosingTag(t, a)
  \/ \E t \in Tags : EndTag(t)
  \/ OtherToken
  \/ ErrorToken

------------------------------------------------------------------------------
\* The path expressions handed to the queries: up to n segments joined by
\* "/", each segment an optional "." followed by a tag name or by nothing.
Segments == {<<>>, <<Dot>>} \cup Tags \cup {<<Dot>> \o t : t \in Tags}

SegLists(n) == UNION {[1..k -> Segments] : k \in 1..n}

Paths(n) == {Join(s) : s \in SegLists(n)}

Queryable == pc = "returned" /\ q.op = "none" /\ root # Nil

\* A caller's node.Path() on a node of the returned tree.
QueryPath ==
  /\ Queryable
  /\ \E n \in NodeIds :
       q' = [NoQuery EXCEPT !.op = "Path", !.node = n, !.res = Path(n)]
  /\ UNCHANGED <<nodes, root, parent, pc, tok>>

\* A caller's node.MatchesPath(path) on a node of the returned tree.
QueryMatchesPath ==
  /\ Queryable
  /\ \E n \in NodeIds, p \in Paths(MaxSegs) :
       q' = [NoQuery EXCEPT !.op = "MatchesPath", !.node = n, !.path = p,
                            !.res = MatchesPath(n, p)]
  /\ UNCHANGED <<nodes, root, parent, pc, tok>>

\* The Class and ID filters of the NodePaths handed to the queries.
Classes == {"", "c", "i"}

IDs == {"", "i"}

NodePath(p, c, i) == [Path |-> p, Class |-> c, ID |-> i]

\* A caller's node.FindPath(nodePath) on a node of the returned tree.
QueryFindPath ==
  /\ Queryable
  /\ \E n \in NodeIds, p \in Paths(MaxFindSegs), c \in Classes, i \in IDs :
       q' = [op |-> "FindPath", node |-> n, path |-> p, class |-> c, id |-> i,
             res |-> FindPath(n, NodePath(p, c, i))]
  /\ UNCHANGED <<nodes, root, parent, pc, tok>>

\* A caller's node.FindPathAll(nodePath) on a node of the returned tree.
QueryFindPathAll ==
  /\ Queryable
  /\ \E n \in NodeIds, p \in Paths(MaxFindSegs), c \in Classes, i \in IDs :
       q' = [op |-> "FindPathAll", node |-> n, path |-> p, class |-> c, id |-> i,
             res |-> FindPathAll(n, NodePath(p, c, i))]
  /\ UNCHANGED <<nodes, root, parent, pc, tok>>

\* The builder, and Path() on the tree it returns.
Next == Token(AttrLists) \/ QueryPath

Spec == Init /\ [][Next]_vars

\* The builder, and MatchesPath on the tree it returns.  MatchesPath reads no
\* attribute, so the tokens carry none.
NextMatch == Token(NoAttrLists) \/ QueryMatchesPath

SpecMatch == Init /\ [][NextMatch]_vars

\* The builder, and FindPath / FindPathAll on the tree it returns.
NextFind == Token(AttrLists) \/ QueryFindPath \/ QueryFindPathAll

SpecFind == Init /\ [][NextFind]_vars

------------------------------------------------------------------------------
\* Vocabulary of the properties.

\* The parent chain of a node, the node first and the root last; empty for Nil.
RECURSIVE AncestorChain(_)
AncestorChain(n) ==
  IF n = Nil THEN <<>> ELSE <<n>> \o AncestorChain(nodes[n].Parent)

\* The nodes strictly above n on its parent chain.
ProperAncestors(n) ==
  {AncestorChain(n)[i] : i \in 2..Len(AncestorChain(n))}

\* The tag names on the chain from the root down to n.
RECURSIVE TagsFromRoot(_)
TagsFromRoot(n) ==
  IF n = Nil THEN <<>> ELSE Append(TagsFromRoot(nodes[n].Parent), nodes[n].Data)

\* No node on the cursor's ancestor chain, cursor included, has tag name t.
StrayEndTag(t) ==
  \A i \in DOMAIN AncestorChain(parent) : nodes[AncestorChain(parent)[i]].Data # t

\* How often node n occurs in the child sequence of node p.
Occurrences(n, p) ==
  Cardinality({i \in DOMAIN nodes[p].Children : nodes[p].Children[i] = n})

\* The position of the last "/" of a path, 0 if it has none.
LastSlash(p) ==
  IF \E i \in DOMAIN p : p[i] = Slash
  THEN CHOOSE i \in DOMAIN p : p[i] = Slash /\ \A j \in (i+1)..Len(p) : p[j] # Slash
  ELSE 0

\* A path R/x read as text: R is what precedes its last "/", x what follows.
Remainder(p) == SubSeq(p, 1, LastSlash(p) - 1)

LastSegment(p) == SubSeq(p, LastSlash(p) + 1, Len(p))

\* dive takes one token of the given type in this step.
Takes(type) == pc = "loop" /\ tok'.Type = type /\ pc' # "returned"

\* C1: a stray end tag (no node on the cursor's ancestor chain carries its
\* name; the chain is empty when the cursor is absent) does not crash dive and
\* leaves the cursor, the root and every node unchanged.
C1_StrayEndTagIgnored ==
  [][ (Takes("EndTag") /\ StrayEndTag(tok'.Data))
        => (pc' = "loop" /\ UNCHANGED <<nodes, root, parent>>) ]_vars

\* C2: a self-closing tag that arrives while there is no open cursor is a
\* silent no-op: no crash, root and cursor unchanged, no node gains a child.
C2_OrphanSelfClosingNoOp ==
  [][ (Takes("SelfClosingTag") /\ parent = Nil)
        => /\ pc' = "loop"
           /\ UNCHANGED <<root, parent>>
           /\ \A n \in NodeIds : nodes'[n].Children = nodes[n].Children ]_vars

\* C3: a start tag creates exactly one node whose parent is the cursor; the
\* node becomes the root if there is none and is otherwise appended as the
\* last child of the cursor; it becomes the cursor; and dive returns the node
\* created by the first start tag.
C3_StartTagAttaches ==
  [][ /\ Takes("StartTag")
        => /\ pc' = "loop"
           /\ Len(nodes') = Len(nodes) + 1
           /\ nodes'[Len(nodes')].Parent = parent
           /\ parent' = Len(nodes')
           /\ root = Nil => root' = Len(nodes')
           /\ root # Nil =>
                /\ root' = root
                /\ parent # Nil
                /\ nodes'[parent].Children = Append(nodes[parent].Children, Len(nodes'))
      /\ (pc = "loop" /\ pc' = "returned")
        => root' = (IF Len(nodes) = 0 THEN Nil ELSE 1) ]_vars

\* The shape of the heap after a processed prefix of the token stream.
TreeShape ==
  /\ (root = Nil) <=> (nodes = <<>>)
  /\ \A n \in NodeIds :
       /\ (nodes[n].Parent = Nil) <=> (n = root)
       /\ n # root =>
            /\ nodes[n].Parent \in NodeIds
            /\ nodes[n].Parent < n
            /\ Occurrences(n, nodes[n].Parent) = 1
            /\ \A m \in NodeIds \ {nodes[n].Parent} : Occurrences(n, m) = 0
       /\ Occurrences(root, n) = 0
       /\ \A i, j \in DOMAIN nodes[n].Children :
            i < j => nodes[n].Children[i] < nodes[n].Children[j]
  /\ root # Nil =>
       {(<<root>> \o FlattenChildren(root))[i] : i \in 1..Len(nodes)} = NodeIds
  /\ parent = Nil \/ parent \in NodeIds

\* C4: after every processed prefix (dive is in its loop or has returned, it
\* has not panicked) the nodes created so far form a single-rooted tree: the
\* root alone has no parent, every other node occurs exactly once in its
\* parent's child sequence and in no other, children are in creation order,
\* every node is reachable from the root, the cursor is absent or a node; and
\* no step changes the parent or the tag of an existing node.
C4_SingleRootedTree ==
  /\ [](pc # "panic" => TreeShape)
  /\ [][ \A n \in NodeIds :
           /\ n <= Len(nodes')
           /\ nodes'[n].Parent = nodes[n].Parent
           /\ nodes'[n].Data = nodes[n].Data ]_vars

\* A closed root with two children, one of them with a child of its own.
C4_Witness ==
  /\ pc = "loop"
  /\ Len(nodes) = 4
  /\ parent = Nil
  /\ Len(nodes[1].Children) = 2
  /\ nodes[4].Parent \in {2, 3}
  /\ tok.Type = "EndTag"

\* C5: MatchesPath never raises: it answers true or false for every node of
\* the returned tree and every path.
C5_MatchesPathNeverRaises ==
  q.op = "MatchesPath" => q.res \in {"true", "false"}

\* C6: for a node n with a parent and a path R/.t with R not empty,
\* MatchesPath(n, R/.t) is true exactly when n's tag is t and n's immediate
\* parent matches R.
C6_DirectChildMarker ==
  ( /\ q.op = "MatchesPath"
    /\ LastSlash(q.path) > 1
    /\ HasPrefix(LastSegment(q.path))
    /\ nodes[q.node].Parent # Nil )
  => ( (q.res = "true")
       <=> ( /\ nodes[q.node].Data = Tail(LastSegment(q.path))
             /\ MatchesPath(nodes[q.node].Parent, Remainder(q.path)) = "true" ) )

\* <a><b><b>: the inner b does not match "a/.b", its parent being a b, though
\* it matches "a/b".
C6_Witness ==
  /\ q.op = "MatchesPath"
  /\ q.node = 3
  /\ nodes[3].Parent = 2
  /\ nodes[2].Parent = 1
  /\ TagsFromRoot(3) = << <<"a">>, <<"b">>, <<"b">> >>
  /\ q.path = <<"a", "/", ".", "b">>
  /\ q.res = "false"
  /\ MatchesPath(3, <<"a", "/", "b">>) = "true"

\* C7: a path of two or more segments whose last segment t is unmarked and
\* whose second-to-last segment names tag s matches n only if n's tag is t and
\* a proper ancestor of n has tag s.
C7_UnmarkedNeedsProperAncestor ==
  ( /\ q.op = "MatchesPath"
    /\ Len(Split(q.path)) >= 2
    /\ ~HasPrefix(LastSegment(q.path))
    /\ q.res = "true" )
  => /\ nodes[q.node].Data = LastSegment(q.path)
     /\ \E a \in ProperAncestors(q.node) :
          nodes[a].Data = TrimPrefix(Split(q.path)[Len(Split(q.path)) - 1])

\* C8: for a node n with tag t and a path R/t (t unmarked, R not empty), if
\* some ancestor of n matches R then n matches R/t.
C8_UnmarkedAnyAncestor ==
  ( /\ q.op = "MatchesPath"
    /\ LastSlash(q.path) > 1
    /\ ~HasPrefix(LastSegment(q.path))
    /\ nodes[q.node].Data = LastSegment(q.path)
    /\ \E a \in ProperAncestors(q.node) : MatchesPath(a, Remainder(q.path)) = "true" )
  => q.res = "true"

\* C9 as stated: Path(n) is the tag names from the root down to n joined by "/".
C9_PathIsJoinedTags ==
  q.op = "Path" => q.res = Join(TagsFromRoot(q.node))

\* C9 as amended: Path(n) is "/" followed by the tag names from the root down
\* to n joined by "/" ("/html/body/p").
C9_PathIsSlashThenJoinedTags ==
  q.op = "Path" => q.res = <<Slash>> \o Join(TagsFromRoot(q.node))

\* Path() of a grandchild of the root.
C9_Witness ==
  /\ q.op = "Path"
  /\ q.node = 3
  /\ nodes[3].Parent = 2
  /\ nodes[2].Parent = 1
  /\ q.res = <<"/", "a", "/", "b", "/", "a">>

\* The nodes of [r] followed by FlattenChildren(r) that pass all three filters.
Passing(r, nodePath) ==
  SelectSeq(<<r>> \o FlattenChildren(r),
            LAMBDA n : /\ MatchesPath(n, nodePath.Path) = "true"
                       /\ HasClass(n, nodePath.Class)
                       /\ HasID(n, nodePath.ID))

\* C10: FindPathAll(r, q) is the pre-order sequence [r] + FlattenChildren(r)
\* filtered by MatchesPath and the class and id filters, and FindPath(r, q) is
\* its first element, or none when it is empty.
C10_FindIsFilteredPreorder ==
  /\ q.op = "FindPathAll" =>
       q.res = Passing(q.node, NodePath(q.path, q.class, q.id))
  /\ q.op = "FindPath" =>
       q.res = (IF Passing(q.node, NodePath(q.path, q.class, q.id)) = <<>> THEN Nil
                ELSE Passing(q.node, NodePath(q.path, q.class, q.id))[1])

====
